---------------------------- MODULE Spec2Model ----------------------------
(***************************************************************************)
(* Model of the tax planning core: TaxCalculator (src/taxation_tool.py),   *)
(* its MCP tool wrappers (TaxPlannerMCP.register_tools) and the one call   *)
(* the Streamlit front end makes on it (src/app.py).                       *)
(*                                                                         *)
(* Numbers.  The program computes in Python floats; the model computes in  *)
(* exact arithmetic.  Incomes and deduction amounts are whole rupees.      *)
(* Rates are held in percent (0.05 is 5).  Every tax amount (slab tax,     *)
(* base_tax, cess, total_tax) is held in ticks of 1/500 rupee, the         *)
(* coarsest unit in which amount * rate and tax * 0.04 are whole numbers   *)
(* for every rate of the slab tables (all are multiples of 5 percent).     *)
(***************************************************************************)
EXTENDS Integers, Sequences, FiniteSets, TLC

VARIABLES
    income,      \* argument: gross annual income (rupees)
    deductions,  \* argument: function section -> claimed amount (rupees)
    regime,      \* argument: regime string
    op,          \* the operation the caller invoked last ("none" before any)
    result,      \* what that invocation produced (value or raised exception)
    prev         \* the caller's previous calculate_tax call, or NoCall

vars == <<income, deductions, regime, op, result, prev>>

-----------------------------------------------------------------------------
(* Bounds of the enumerated inputs *)

\* incomes are enumerated within Delta rupees of every slab boundary
Delta == 1
\* a capped section's amounts are enumerated in steps of limit / DedLevels
DedLevels == 2
\* the uncapped section's (HRA) amounts are enumerated up to HRAMax
HRAMax == 300000

-----------------------------------------------------------------------------
(* TaxCalculator.__init__ *)

\* float('inf'): larger than every amount the model enumerates
inf == 2147483647

\* (slab_limit, base, rate); rate in percent
tax_slabs ==
    [old |-> << <<250000, 0, 0>>,
                <<500000, 250000, 5>>,
                <<750000, 500000, 10>>,
                <<1000000, 750000, 15>>,
                <<1250000, 1000000, 20>>,
                <<1500000, 1250000, 25>>,
                <<inf, 1500000, 30>> >>,
     new |-> << <<300000, 0, 0>>,
                <<600000, 300000, 5>>,
                <<900000, 600000, 10>>,
                <<1200000, 900000, 15>>,
                <<1500000, 1200000, 20>>,
                <<inf, 1500000, 30>> >>]

\* Python values of mixed type carry their type, as comparisons depend on it
Num(n) == [type |-> "num", value |-> n]
Str(s) == [type |-> "str", value |-> s]

\* self.deductions, and the order in which dict.items() enumerates it
SectionOrder == <<"80C", "80D", "80TTA", "HRA">>

deductions_catalog ==
    ("80C" :> [limit |-> Num(150000),
               items |-> <<"PPF", "ELSS", "Life Insurance", "EPF">>]) @@
    ("80D" :> [limit |-> Num(25000), items |-> <<"Health Insurance">>]) @@
    ("80TTA" :> [limit |-> Num(10000), items |-> <<"Savings Account Interest">>]) @@
    ("HRA" :> [limit |-> Str("Based on Rules"), items |-> <<"House Rent">>])

\* the methods class TaxCalculator defines
TaxCalculatorMethods ==
    {"__init__", "calculate_tax", "get_recommendations", "generate_tax_report"}

-----------------------------------------------------------------------------
(* Python semantics used by the methods *)

\* a < b is defined between two numbers (or two strings); otherwise TypeError
PyLtDefined(a, b) == a.type = b.type

\* a == b: values of different types are unequal
PyEq(a, b) == a.type = b.type /\ a.value = b.value

\* min(a, b)
Min(a, b) == IF a <= b THEN a ELSE b

\* sum(deductions.values())
RECURSIVE SumValues(_, _)
SumValues(d, S) ==
    IF S = {} THEN 0
    ELSE LET k == CHOOSE x \in S : TRUE
         IN  d[k] + SumValues(d, S \ {k})

\* current_deductions.get(section, 0)
DictGet(d, section) == IF section \in DOMAIN d THEN d[section] ELSE 0

\* attribute lookup of a method on a TaxCalculator instance
GetAttr(name) ==
    IF name \in TaxCalculatorMethods
    THEN [kind |-> "method", name |-> name]
    ELSE [kind |-> "AttributeError", name |-> name]

-----------------------------------------------------------------------------
(* TaxCalculator.calculate_tax *)

\* variant: the deductions are subtracted under either regime
TaxableIncomeAnyRegime(gross, total_deductions, reg) == gross - total_deductions

\* variant: the deductions are added instead of subtracted
TaxableIncomePlus(gross, total_deductions, reg) ==
    gross + (IF reg = "old" THEN total_deductions ELSE 0)

\* variant: taxable income floored at zero
TaxableIncomeFloored(gross, total_deductions, reg) ==
    LET t == gross - (IF reg = "old" THEN total_deductions ELSE 0)
    IN  IF t < 0 THEN 0 ELSE t

\* taxable_income = income - (total_deductions if regime == 'old' else 0)
TaxableIncome(gross, total_deductions, reg) ==
    gross - (IF reg = "old" THEN total_deductions ELSE 0)

\* variant: the slab's width does not cap the amount taxed in it
TaxableAmountUncapped(taxable_income, base, slab_limit) == taxable_income - base

\* taxable_amount = min(taxable_income - base, slab_limit - base)
TaxableAmount(taxable_income, base, slab_limit) ==
    Min(taxable_income - base, slab_limit - base)

\* slab_tax = taxable_amount * rate    (rupees * percent -> ticks)
SlabTax(taxable_amount, rate) == taxable_amount * rate * 5

\* variant: tax = slab_tax, the last slab's tax replaces the sum
AccumulateOverwrite(tax, slab_tax) == slab_tax

\* tax += slab_tax
Accumulate(tax, slab_tax) == tax + slab_tax

\* variant: cess = tax * 0.4
CessTenfold(tax) == (tax * 2) \div 5

\* cess = tax * 0.04
Cess(tax) == tax \div 25

\* 'total_tax': tax + cess
TotalTax(tax, cess) == tax + cess

\* the entry appended to tax_breakup; slab is the label f"{base+1}-{slab_limit}"
BreakupEntry(base, slab_limit, rate, slab_tax) ==
    [slab |-> <<base + 1, slab_limit>>, rate |-> rate, tax |-> slab_tax]

\* the for loop over self.tax_slabs[regime], from the i-th slab on
RECURSIVE SlabLoop(_, _, _, _, _)
SlabLoop(slabs, i, taxable_income, tax, tax_breakup) ==
    IF i > Len(slabs)
    THEN [tax |-> tax, tax_breakup |-> tax_breakup]
    ELSE LET slab_limit == slabs[i][1]
             base       == slabs[i][2]
             rate       == slabs[i][3]
         IN  IF taxable_income > base
             THEN LET taxable_amount == TaxableAmount(taxable_income, base, slab_limit)
                      slab_tax       == SlabTax(taxable_amount, rate)
                      tax2           == Accumulate(tax, slab_tax)
                      breakup2       == Append(tax_breakup,
                                               BreakupEntry(base, slab_limit, rate, slab_tax))
                  IN  IF taxable_income <= slab_limit
                      THEN [tax |-> tax2, tax_breakup |-> breakup2]   \* break
                      ELSE SlabLoop(slabs, i + 1, taxable_income, tax2, breakup2)
             ELSE SlabLoop(slabs, i + 1, taxable_income, tax, tax_breakup)

calculate_tax(gross, deds, reg) ==
    LET total_deductions == SumValues(deds, DOMAIN deds)
        taxable_income   == TaxableIncome(gross, total_deductions, reg)
    IN  IF reg \notin DOMAIN tax_slabs
        THEN [kind |-> "KeyError", key |-> reg]       \* self.tax_slabs[regime]
        ELSE LET loop == SlabLoop(tax_slabs[reg], 1, taxable_income, 0, <<>>)
                 cess == Cess(loop.tax)
             IN  [kind             |-> "TaxResult",
                  gross_income     |-> gross,
                  total_deductions |-> total_deductions,
                  taxable_income   |-> taxable_income,
                  tax_breakup      |-> loop.tax_breakup,
                  base_tax         |-> loop.tax,
                  cess             |-> cess,
                  total_tax        |-> TotalTax(loop.tax, cess)]

-----------------------------------------------------------------------------
(* TaxCalculator.get_recommendations *)

\* remaining = details['limit'] - current if details['limit'] != 'Based on Rules' else 0
Remaining(limit, current) ==
    IF ~PyEq(limit, Str("Based on Rules")) THEN limit.value - current ELSE 0

\* the for loop over self.deductions.items(), from the i-th section on
RECURSIVE RecommendationLoop(_, _, _)
RecommendationLoop(i, current_deductions, recommendations) ==
    IF i > Len(SectionOrder)
    THEN [kind |-> "Recommendations", list |-> recommendations]
    ELSE LET section == SectionOrder[i]
             details == deductions_catalog[section]
             current == DictGet(current_deductions, section)
         IN  IF ~PyLtDefined(Num(current), details.limit)
             THEN [kind |-> "TypeError", section |-> section]  \* current < details['limit']
             ELSE IF current < details.limit.value
                     \/ PyEq(details.limit, Str("Based on Rules"))
                  THEN RecommendationLoop(i + 1, current_deductions,
                           Append(recommendations,
                                  [section              |-> section,
                                   current_utilization  |-> current,
                                   remaining_limit      |-> Remaining(details.limit, current),
                                   suggested_instruments |-> details.items]))
                  ELSE RecommendationLoop(i + 1, current_deductions, recommendations)

get_recommendations(gross, current_deductions) ==
    RecommendationLoop(1, current_deductions, <<>>)

-----------------------------------------------------------------------------
(* TaxPlannerMCP.register_tools: the tools catch every exception *)

IsException(r) == r.kind \in {"KeyError", "TypeError", "AttributeError"}

\* calculate_tax_liability: except Exception -> return {}
calculate_tax_liability(gross, deds, reg) ==
    LET r == calculate_tax(gross, deds, reg)
    IN  IF IsException(r) THEN [kind |-> "EmptyDict"] ELSE r

\* get_tax_recommendations: except Exception -> return []
get_tax_recommendations(gross, deds) ==
    LET r == get_recommendations(gross, deds)
    IN  IF IsException(r) THEN [kind |-> "Recommendations", list |-> <<>>] ELSE r

-----------------------------------------------------------------------------
(* The inputs a caller may pass *)

Sections == {SectionOrder[i] : i \in 1..Len(SectionOrder)}

\* every finite slab boundary of either regime, and 0
Boundaries ==
    {0} \cup (UNION {{tax_slabs[r][i][1] : i \in 1..Len(tax_slabs[r])} :
                         r \in DOMAIN tax_slabs} \ {inf})

Incomes == {b + d : b \in Boundaries, d \in -Delta..Delta}

Regimes == {"old", "new", "flat"}

Amounts(section) ==
    LET limit == deductions_catalog[section].limit
    IN  IF limit.type = "num"
        THEN {(limit.value * k) \div DedLevels : k \in -1..(DedLevels + 1)}
        ELSE {HRAMax * k : k \in -1..1}

\* all deduction maps over the sections of S
MapsOver(S) ==
    {d \in [S -> UNION {Amounts(s) : s \in S}] : \A s \in S : d[s] \in Amounts(s)}

DeductionInputs ==
    UNION {MapsOver(S) : S \in {T \in SUBSET Sections : Cardinality(T) <= 2}}

NoResult == [kind |-> "none"]
NoCall == [kind |-> "none"]

-----------------------------------------------------------------------------
(* Calls on one TaxCalculator: a caller holds its arguments and invokes an   *)
(* operation on them.  The calculator keeps no state between calls.          *)

Init ==
    /\ income \in Incomes
    /\ deductions \in DeductionInputs
    /\ regime \in Regimes
    /\ op = "none"
    /\ result = NoResult
    /\ prev = NoCall

\* a direct call of TaxCalculator.calculate_tax
CalculateTax ==
    /\ op' = "calculate_tax"
    /\ result' = calculate_tax(income, deductions, regime)
    /\ UNCHANGED <<income, deductions, regime, prev>>

\* the MCP tool calculate_tax_liability
CalculateTaxLiability ==
    /\ op' = "calculate_tax_liability"
    /\ result' = calculate_tax_liability(income, deductions, regime)
    /\ UNCHANGED <<income, deductions, regime, prev>>

\* a direct call of TaxCalculator.get_recommendations
GetRecommendations ==
    /\ op' = "get_recommendations"
    /\ result' = get_recommendations(income, deductions)
    /\ UNCHANGED <<income, deductions, regime, prev>>

\* the MCP tool get_tax_recommendations
GetTaxRecommendations ==
    /\ op' = "get_tax_recommendations"
    /\ result' = get_tax_recommendations(income, deductions)
    /\ UNCHANGED <<income, deductions, regime, prev>>

\* app.py main: comparison = calculator.compare_tax_regimes(income, deductions);
\* the attribute lookup comes first, and the call is made only if it succeeds
CompareTaxRegimes ==
    /\ op' = "compare_tax_regimes"
    /\ result' = GetAttr("compare_tax_regimes")
    /\ UNCHANGED <<income, deductions, regime, prev>>

Next ==
    \/ CalculateTax
    \/ CalculateTaxLiability
    \/ GetRecommendations
    \/ GetTaxRecommendations
    \/ CompareTaxRegimes

Spec == Init /\ [][Next]_vars

-----------------------------------------------------------------------------
(* Two successive calculate_tax calls of one caller, the second with one     *)
(* argument changed: the relational properties compare their results.        *)

InitPairs ==
    /\ income \in Incomes
    /\ deductions \in UNION {MapsOver(S) : S \in {T \in SUBSET Sections : Cardinality(T) <= 1}}
    /\ regime \in DOMAIN tax_slabs
    /\ op = "none"
    /\ result = NoResult
    /\ prev = NoCall

LastCall ==
    [kind |-> "call", income |-> income, deductions |-> deductions,
     regime |-> regime, result |-> result]

\* calculate_tax again, with another income
RecalculateIncome(b) ==
    /\ op = "calculate_tax"
    /\ prev = NoCall
    /\ b # income
    /\ prev' = LastCall
    /\ income' = b
    /\ result' = calculate_tax(b, deductions, regime)
    /\ UNCHANGED <<deductions, regime, op>>

\* calculate_tax again, with the amount of one section set anew
RecalculateDeduction(section, amount) ==
    /\ op = "calculate_tax"
    /\ prev = NoCall
    /\ DictGet(deductions, section) # amount
    /\ prev' = LastCall
    /\ deductions' = [x \in DOMAIN deductions \cup {section} |->
                         IF x = section THEN amount ELSE deductions[x]]
    /\ result' = calculate_tax(income, deductions', regime)
    /\ UNCHANGED <<income, regime, op>>

NextPairs ==
    \/ CalculateTax
    \/ \E b \in Incomes : RecalculateIncome(b)
    \/ \E section \in Sections : \E amount \in Amounts(section) :
           RecalculateDeduction(section, amount)

SpecPairs == InitPairs /\ [][NextPairs]_vars

-----------------------------------------------------------------------------
(* Reference definitions used to state the properties *)

Rupees(n) == n * 500

CalcOps == {"calculate_tax", "calculate_tax_liability"}
RecOps == {"get_recommendations", "get_tax_recommendations"}

NonNegative(d) == \A s \in DOMAIN d : d[s] >= 0

WellFormed == regime \in {"old", "new"} /\ income >= 0 /\ NonNegative(deductions)

\* the sum of the claimed amounts, section by section
RefTotal(d) ==
    DictGet(d, "80C") + DictGet(d, "80D") + DictGet(d, "80TTA") + DictGet(d, "HRA")

\* the slabs of a regime that lie below a taxable income
RefSlabs(reg, ti) == {i \in 1..Len(tax_slabs[reg]) : tax_slabs[reg][i][2] < ti}

\* rate * min(ti - lowerBound, upperBound - lowerBound), in ticks
RefContribution(reg, i, ti) ==
    LET upper == tax_slabs[reg][i][1]
        lower == tax_slabs[reg][i][2]
        part  == IF ti - lower < upper - lower THEN ti - lower ELSE upper - lower
    IN  part * tax_slabs[reg][i][3] * 5   \* one percent of a rupee is 5 ticks

RECURSIVE RefSum(_, _, _)
RefSum(reg, S, ti) ==
    IF S = {} THEN 0
    ELSE LET i == CHOOSE x \in S : TRUE
         IN  RefContribution(reg, i, ti) + RefSum(reg, S \ {i}, ti)

RefBaseTax(reg, ti) == RefSum(reg, RefSlabs(reg, ti), ti)

RECURSIVE BreakupSum(_)
BreakupSum(entries) ==
    IF entries = <<>> THEN 0 ELSE Head(entries).tax + BreakupSum(Tail(entries))

-----------------------------------------------------------------------------
(* Properties of calculate_tax on one call (specification Spec) *)

\* C1: for a regime in {old, new}, an income >= 0 and non-negative deductions,
\* calculate_tax returns taxable_income = income - sum(deductions) under old and
\* income under new; base_tax is the sum, over the regime's slabs with
\* base < taxable_income, of rate * min(taxable_income - base, slab_limit - base);
\* tax_breakup holds exactly one entry for each of those slabs, in ascending
\* order, and the entries' taxes add up to base_tax.
C1_SlabTax ==
    (op \in CalcOps /\ WellFormed) =>
        LET ti == IF regime = "old" THEN income - RefTotal(deductions) ELSE income
            S  == RefSlabs(regime, ti)
            bk == result.tax_breakup
        IN  /\ result.kind = "TaxResult"
            /\ result.taxable_income = ti
            /\ result.base_tax = RefBaseTax(regime, ti)
            /\ Len(bk) = Cardinality(S)
            /\ \A i \in S :
                   \E k \in 1..Len(bk) :
                       /\ bk[k].slab = <<tax_slabs[regime][i][2] + 1, tax_slabs[regime][i][1]>>
                       /\ bk[k].tax = RefContribution(regime, i, ti)
            /\ \A k \in 1..(Len(bk) - 1) : bk[k].slab[1] < bk[k + 1].slab[1]
            /\ BreakupSum(bk) = result.base_tax

\* the example: 600000 with 80C = 150000 and 80D = 25000 under old
C1_Witness ==
    /\ op = "calculate_tax"
    /\ regime = "old"
    /\ income = 600000
    /\ DOMAIN deductions = {"80C", "80D"}
    /\ deductions["80C"] = 150000
    /\ deductions["80D"] = 25000
    /\ result.kind = "TaxResult"
    /\ result.taxable_income = 425000
    /\ result.base_tax = Rupees(8750)
    /\ Len(result.tax_breakup) = 2

\* C10: every TaxResult has cess = 4% of base_tax and total_tax = base_tax + cess;
\* with income 0 and no deductions total_tax is 0 under both regimes.
C10_Cess ==
    (op \in CalcOps /\ result.kind = "TaxResult") =>
        /\ 100 * result.cess = 4 * result.base_tax
        /\ result.total_tax = result.base_tax + result.cess
        /\ (income = 0 /\ DOMAIN deductions = {}) => result.total_tax = 0

C10_Witness ==
    /\ op = "calculate_tax"
    /\ regime = "new"
    /\ income = 600000
    /\ result.kind = "TaxResult"
    /\ result.base_tax = Rupees(15000)
    /\ result.cess = Rupees(600)
    /\ result.total_tax = Rupees(15600)

\* the case C4 is about: old regime, deductions exceeding the income
DeductionsExceedIncome ==
    /\ op \in CalcOps
    /\ regime = "old"
    /\ income >= 0
    /\ NonNegative(deductions)
    /\ RefTotal(deductions) > income

\* C4 as stated: when the deductions exceed the income under the old regime the
\* returned taxable_income is 0, tax_breakup is empty and base_tax, cess and
\* total_tax are 0.
C4_FlooredAtZero ==
    DeductionsExceedIncome =>
        /\ result.kind = "TaxResult"
        /\ result.taxable_income = 0
        /\ result.tax_breakup = <<>>
        /\ result.base_tax = 0
        /\ result.cess = 0
        /\ result.total_tax = 0

\* C4 as amended: when the deductions exceed the income under the old regime the
\* returned taxable_income is the negative difference income - sum(deductions)
\* (it is not floored), tax_breakup is empty and base_tax, cess and total_tax
\* are 0.
C4_NegativeTaxableIncome ==
    DeductionsExceedIncome =>
        /\ result.kind = "TaxResult"
        /\ result.taxable_income = income - RefTotal(deductions)
        /\ result.taxable_income < 0
        /\ result.tax_breakup = <<>>
        /\ result.base_tax = 0
        /\ result.cess = 0
        /\ result.total_tax = 0

C4_Witness ==
    /\ op = "calculate_tax"
    /\ regime = "old"
    /\ income = 1
    /\ DOMAIN deductions = {"80D"}
    /\ deductions["80D"] = 25000
    /\ result.kind = "TaxResult"
    /\ result.taxable_income = -24999
    /\ result.total_tax = 0

\* C3: calculate_tax rejects malformed input: a regime outside {old, new} yields
\* an InvalidRegime failure, a negative income or deduction amount yields a
\* NegativeInput failure, and no TaxResult or empty result is returned.
C3_RejectsMalformed ==
    (op \in CalcOps) =>
        /\ regime \notin {"old", "new"} => result.kind = "InvalidRegime"
        /\ (regime \in {"old", "new"} /\ (income < 0 \/ ~NonNegative(deductions)))
               => result.kind = "NegativeInput"

-----------------------------------------------------------------------------
(* Properties of compare_tax_regimes and get_recommendations (Spec) *)

\* C2: compare_tax_regimes exists on the calculator and returns the old-regime
\* and new-regime results of calculate_tax on the same inputs, with
\* recommended_regime the regime of lower total_tax (old on a tie) and
\* savings = |total_tax old - total_tax new|.
C2_CompareRegimes ==
    (op = "compare_tax_regimes") =>
        LET old == calculate_tax(income, deductions, "old")
            new == calculate_tax(income, deductions, "new")
        IN  /\ result.kind = "ComparisonResult"
            /\ result.old_regime = old
            /\ result.new_regime = new
            /\ result.recommended_regime =
                   (IF old.total_tax <= new.total_tax THEN "old" ELSE "new")
            /\ result.savings =
                   (IF old.total_tax >= new.total_tax
                    THEN old.total_tax - new.total_tax
                    ELSE new.total_tax - old.total_tax)

\* C5: get_recommendations completes without failure for every deductions map,
\* and always emits for HRA a recommendation whose remaining_limit is a
\* sentinel that is not a number; so the returned sequence is never empty.
C5_UncappedSentinel ==
    (op \in RecOps) =>
        /\ result.kind = "Recommendations"
        /\ result.list # <<>>
        /\ \E k \in 1..Len(result.list) :
               /\ result.list[k].section = "HRA"
               /\ result.list[k].remaining_limit \notin Int

CappedSections == {s \in Sections : deductions_catalog[s].limit.type = "num"}

\* C6: for every capped section get_recommendations emits a recommendation if
\* and only if the current utilization (0 when absent) is strictly below the
\* cap, with remaining_limit = cap - current > 0; the recommendations appear in
\* catalog order and at most once per section.
C6_CappedSections ==
    (op \in RecOps) =>
        /\ result.kind = "Recommendations"
        /\ \A s \in CappedSections :
               LET cap     == deductions_catalog[s].limit.value
                   current == DictGet(deductions, s)
                   at      == {k \in 1..Len(result.list) : result.list[k].section = s}
               IN  /\ (at # {}) <=> (current < cap)
                   /\ Cardinality(at) <= 1
                   /\ \A k \in at :
                          /\ result.list[k].remaining_limit = cap - current
                          /\ result.list[k].remaining_limit > 0
        /\ \A j, k \in 1..Len(result.list) :
               j < k =>
                   \E a, b \in 1..Len(SectionOrder) :
                       /\ a < b
                       /\ SectionOrder[a] = result.list[j].section
                       /\ SectionOrder[b] = result.list[k].section

-----------------------------------------------------------------------------
(* Properties relating two calls of calculate_tax (specification SpecPairs) *)

\* both calls returned a TaxResult
TwoResults ==
    /\ prev.kind = "call"
    /\ prev.result.kind = "TaxResult"
    /\ result.kind = "TaxResult"

\* the highest rate of a regime's table
TopRate(reg) == tax_slabs[reg][Len(tax_slabs[reg])][3]

\* the sum of the full contributions of the slabs 1..k, in ticks
RECURSIVE FullSlabs(_, _)
FullSlabs(reg, k) ==
    IF k = 0 THEN 0
    ELSE (tax_slabs[reg][k][1] - tax_slabs[reg][k][2]) * tax_slabs[reg][k][3] * 5
         + FullSlabs(reg, k - 1)

\* C7: for a fixed regime and fixed deductions total_tax is non-decreasing in
\* the income, and base_tax rises by no more than the top marginal rate on the
\* increase; at a taxable income exactly on a slab boundary base_tax is the sum
\* of the preceding full slabs and the slab starting there has no entry.
C7_Monotone ==
    /\ (TwoResults /\ prev.regime = regime /\ prev.deductions = deductions) =>
           /\ prev.income <= income =>
                  /\ prev.result.total_tax <= result.total_tax
                  /\ result.base_tax - prev.result.base_tax
                         <= (income - prev.income) * TopRate(regime) * 5
           /\ income <= prev.income => result.total_tax <= prev.result.total_tax
    /\ (op = "calculate_tax" /\ result.kind = "TaxResult") =>
           \A k \in 1..(Len(tax_slabs[regime]) - 1) :
               result.taxable_income = tax_slabs[regime][k][1] =>
                   /\ result.base_tax = FullSlabs(regime, k)
                   /\ Len(result.tax_breakup) = k
                   /\ \A j \in 1..Len(result.tax_breakup) :
                          result.tax_breakup[j].slab[1] # result.taxable_income + 1

C7_Witness ==
    /\ TwoResults
    /\ regime = "old"
    /\ DOMAIN deductions = {}
    /\ DOMAIN prev.deductions = {}
    /\ prev.income = 500000
    /\ income = 500001
    /\ prev.result.base_tax = Rupees(12500)
    /\ Len(prev.result.tax_breakup) = 2
    /\ result.base_tax - prev.result.base_tax = 50
    /\ Len(result.tax_breakup) = 3

\* C8: under the new regime, for a fixed income, two deduction maps give the
\* same taxable_income, tax_breakup, base_tax, cess and total_tax (only
\* total_deductions may differ), the ones the empty map gives.
C8_NewRegimeIndependence ==
    (op = "calculate_tax" /\ regime = "new" /\ result.kind = "TaxResult") =>
        /\ result.taxable_income = income
        /\ (TwoResults /\ prev.regime = "new" /\ prev.income = income) =>
               /\ result.taxable_income = prev.result.taxable_income
               /\ result.tax_breakup = prev.result.tax_breakup
               /\ result.base_tax = prev.result.base_tax
               /\ result.cess = prev.result.cess
               /\ result.total_tax = prev.result.total_tax

C8_Witness ==
    /\ TwoResults
    /\ regime = "new"
    /\ prev.regime = "new"
    /\ prev.income = 600000
    /\ income = 600000
    /\ DOMAIN prev.deductions = {}
    /\ DOMAIN deductions = {"80C"}
    /\ deductions["80C"] = 150000
    /\ result.total_deductions = 150000
    /\ prev.result.total_deductions = 0
    /\ result.total_tax = Rupees(15600)
    /\ prev.result.total_tax = Rupees(15600)

\* d2 is d1 with the amount of one section raised, within that section's cap
RaisedWithinCap(d1, d2) ==
    \E s \in Sections :
        /\ DictGet(d2, s) > DictGet(d1, s)
        /\ \A t \in Sections \ {s} : DictGet(d2, t) = DictGet(d1, t)
        /\ s \in CappedSections => DictGet(d2, s) <= deductions_catalog[s].limit.value

\* C9: under the old regime, for a fixed income, raising the amount of one
\* section (others unchanged, within its cap) never increases taxable_income
\* and never increases total_tax.
C9_OldRegimeDeduction ==
    (/\ TwoResults
     /\ regime = "old"
     /\ prev.regime = "old"
     /\ prev.income = income
     /\ RaisedWithinCap(prev.deductions, deductions)) =>
        /\ result.taxable_income <= prev.result.taxable_income
        /\ result.total_tax <= prev.result.total_tax

C9_Witness ==
    /\ TwoResults
    /\ regime = "old"
    /\ prev.regime = "old"
    /\ prev.income = 600000
    /\ income = 600000
    /\ DOMAIN prev.deductions = {"80D"}
    /\ prev.deductions["80D"] = 25000
    /\ DOMAIN deductions = {"80C", "80D"}
    /\ deductions["80C"] = 150000
    /\ deductions["80D"] = 25000
    /\ prev.result.taxable_income = 575000
    /\ result.taxable_income = 425000
    /\ result.total_tax = Rupees(9100)
    /\ result.total_tax < prev.result.total_tax

=============================================================================
